---- MODULE Spec2Model ----
(***************************************************************************)
(* Model of NNCFGraph (nncf/common/graph/graph.py): the attributed         *)
(* directed graph store built on networkx.DiGraph, its insertion           *)
(* operations and its structural queries.                                  *)
(***************************************************************************)
EXTENDS Integers, Sequences, FiniteSets, TLC

\* ------------------------------------------------------------------ bounds
MaxNodes == 3
MaxEdges == 2

\* ------------------------------------------------------------- input sets
NodeNames == {"a"}
InputNoopMetatype == "InputNoopMetatype"
OutputNoopMetatype == "OutputNoopMetatype"
Metatypes == {InputNoopMetatype, OutputNoopMetatype, "Conv2dMetatype"}
IdOverrides == {0, 2}
InputPortIds == {0, 1}
TensorShapes == {"[1]"}
Dtypes == {"float"}

\* Python's None for an optional argument: an optional value is the empty
\* sequence (None) or a one-element sequence.
None == << >>
Some(x) == << x >>

get_input_metatypes == {InputNoopMetatype}
get_output_metatypes == {OutputNoopMetatype}

\* --------------------------------------------------------------- the state
VARIABLES
    nx_graph,             \* self._nx_graph: node (insertion-ordered attrs),
                          \*   succ / pred (insertion-ordered adjacency), adj (edge attrs)
    node_id_to_key_dict,  \* self._node_id_to_key_dict
    input_nncf_nodes,     \* self._input_nncf_nodes, in insertion order
    output_nncf_nodes,    \* self._output_nncf_nodes, in insertion order
    call,                 \* the most recent call and the arguments that decide its outcome
    err                   \* its outcome: "none" or the reason of the exception

vars == << nx_graph, node_id_to_key_dict, input_nncf_nodes, output_nncf_nodes, call, err >>
graph == << nx_graph, node_id_to_key_dict, input_nncf_nodes, output_nncf_nodes >>

\* ----------------------------------------------------------------- helpers
Range(s) == { s[i] : i \in 1..Len(s) }

Max(S) == CHOOSE x \in S : \A y \in S : y <= x

SeqContains(s, x) == \E i \in 1..Len(s) : s[i] = x

\* f'{node_id} {node_name}': injective in (node_id, node_name), as the
\* decimal rendering of node_id holds no space.
NodeKey(node_id, node_name) == << node_id, node_name >>

NodeKeys(G) == { G.node[i].key : i \in 1..Len(G.node) }

EdgesOf(G) == DOMAIN G.adj

\* nx.DiGraph(): no nodes, no edges.
DiGraph == [ node |-> << >>, succ |-> << >>, pred |-> << >>, adj |-> << >> ]

\* dict(d, **{k: v}) on an insertion-ordered dict kept as a function.
DictSet(d, k, v) == [ x \in (DOMAIN d) \cup {k} |-> IF x = k THEN v ELSE d[x] ]

\* nx.DiGraph.add_node(key, **attrs): a new key is appended with empty
\* adjacency, a key of the graph has its attributes updated in place.
nx_add_node(G, attrs) ==
    IF attrs.key \in NodeKeys(G)
    THEN [ G EXCEPT !.node = [ i \in 1..Len(G.node) |->
                                 IF G.node[i].key = attrs.key THEN attrs ELSE G.node[i] ] ]
    ELSE [ node |-> Append(G.node, attrs),
           succ |-> DictSet(G.succ, attrs.key, << >>),
           pred |-> DictSet(G.pred, attrs.key, << >>),
           adj  |-> G.adj ]

\* nx.DiGraph.add_edge(u, v, **attrs) for nodes of the graph: the edge's
\* attribute dict is created or updated in place, one dict per (u, v).
nx_add_edge(G, u, v, attrs) ==
    [ node |-> G.node,
      succ |-> [ G.succ EXCEPT ![u] = IF SeqContains(@, v) THEN @ ELSE Append(@, v) ],
      pred |-> [ G.pred EXCEPT ![v] = IF SeqContains(@, u) THEN @ ELSE Append(@, u) ],
      adj  |-> DictSet(G.adj, << u, v >>, attrs) ]

Init ==
    /\ nx_graph = DiGraph
    /\ node_id_to_key_dict = << >>
    /\ input_nncf_nodes = << >>
    /\ output_nncf_nodes = << >>
    /\ call = [ op |-> "__init__" ]
    /\ err = "none"

\* ------------------------------------------------------------ add_nncf_node
\* The node attributes kept are id, key, node_name and metatype: node_type,
\* module_attributes, ignored_algorithms and the two flags are stored next to
\* them and read by none of the operations below.
\* Mutant: the override tested for truth ("if node_id_override:"), so that 0 is taken as None.
NextNodeId_Truthiness(node_id_override, ids) ==
    IF node_id_override # None /\ node_id_override[1] # 0
    THEN node_id_override[1]
    ELSE IF ids # {} THEN Max(ids) + 1 ELSE 0

NextNodeId(node_id_override, ids) ==
    IF node_id_override # None
    THEN node_id_override[1]
    ELSE IF ids # {} THEN Max(ids) + 1 ELSE 0

\* Mutant: the duplicate check left out.
IdAlreadyPresent_Never(node_id, dict) == FALSE

IdAlreadyPresent(node_id, dict) == node_id \in DOMAIN dict

\* Mutant: the node put in front of the index instead of at its end.
RegisterNode_Front(index, node, metatypes) ==
    IF node.metatype \in metatypes THEN << node >> \o index ELSE index

RegisterNode(index, node, metatypes) ==
    IF node.metatype \in metatypes THEN Append(index, node) ELSE index

add_nncf_node(node_name, node_metatype, node_id_override) ==
    LET node_id  == NextNodeId(node_id_override, DOMAIN node_id_to_key_dict)
        node_key == NodeKey(node_id, node_name)
        attrs    == [ id |-> node_id, key |-> node_key,
                      node_name |-> node_name, metatype |-> node_metatype ]
    IN  /\ call' = [ op |-> "add_nncf_node", node_id_override |-> node_id_override ]
        /\ IF IdAlreadyPresent(node_id, node_id_to_key_dict)
           THEN /\ err' = "already in the NNCFGraph"
                /\ UNCHANGED graph
           ELSE /\ Len(nx_graph.node) < MaxNodes
                /\ err' = "none"
                /\ node_id_to_key_dict' = DictSet(node_id_to_key_dict, node_id, node_key)
                /\ nx_graph' = nx_add_node(nx_graph, attrs)
                /\ input_nncf_nodes' = RegisterNode(input_nncf_nodes, attrs, get_input_metatypes)
                /\ output_nncf_nodes' = RegisterNode(output_nncf_nodes, attrs, get_output_metatypes)

\* ---------------------------------------------- add_edge_between_nncf_nodes
IndexIds(index) == { index[i].id : i \in 1..Len(index) }

\* Mutant: the two index checks swapped (from against the inputs, to against the outputs).
EdgeErrReason_Swapped(from_node_id, to_node_id, from_node_key, to_node_key) ==
    LET r0 == "none"
        r1 == IF from_node_key \notin NodeKeys(nx_graph) THEN "not in NNCFGraph" ELSE r0
        r2 == IF to_node_key \notin NodeKeys(nx_graph) THEN "not in NNCFGraph" ELSE r1
        r3 == IF from_node_id \in IndexIds(input_nncf_nodes)
              THEN "cannot add edges *from* output nodes" ELSE r2
        r4 == IF to_node_id \in IndexIds(output_nncf_nodes)
              THEN "cannot add edges *to* input nodes" ELSE r3
    IN  r4

\* Mutant: the check of to_node_id against the input nodes is left out.
EdgeErrReason_NoInputCheck(from_node_id, to_node_id, from_node_key, to_node_key) ==
    LET r0 == "none"
        r1 == IF from_node_key \notin NodeKeys(nx_graph) THEN "not in NNCFGraph" ELSE r0
        r2 == IF to_node_key \notin NodeKeys(nx_graph) THEN "not in NNCFGraph" ELSE r1
        r3 == IF from_node_id \in IndexIds(output_nncf_nodes)
              THEN "cannot add edges *from* output nodes" ELSE r2
    IN  r3

EdgeErrReason(from_node_id, to_node_id, from_node_key, to_node_key) ==
    LET r0 == "none"
        r1 == IF from_node_key \notin NodeKeys(nx_graph) THEN "not in NNCFGraph" ELSE r0
        r2 == IF to_node_key \notin NodeKeys(nx_graph) THEN "not in NNCFGraph" ELSE r1
        r3 == IF from_node_id \in IndexIds(output_nncf_nodes)
              THEN "cannot add edges *from* output nodes" ELSE r2
        r4 == IF to_node_id \in IndexIds(input_nncf_nodes)
              THEN "cannot add edges *to* input nodes" ELSE r3
    IN  r4

\* Mutant: the key built from the id instead of looked up, so that an absent id raises nothing here.
get_node_key_by_id_Built(dict, node_id) ==
    IF node_id \in DOMAIN dict THEN Some(dict[node_id]) ELSE Some(NodeKey(node_id, "a"))

\* self._node_id_to_key_dict[node_id]: the key, or None where Python raises KeyError.
get_node_key_by_id(dict, node_id) ==
    IF node_id \in DOMAIN dict THEN Some(dict[node_id]) ELSE None

add_edge_upto(from_node_id, to_node_id, tensor_shape, input_port_id, dtype, max_edges) ==
    LET from_lookup == get_node_key_by_id(node_id_to_key_dict, from_node_id)
        to_lookup   == get_node_key_by_id(node_id_to_key_dict, to_node_id)
    IN
    /\ call' = [ op |-> "add_edge_between_nncf_nodes", from_node_id |-> from_node_id,
                 to_node_id |-> to_node_id, input_port_id |-> input_port_id ]
    /\ IF from_lookup = None \/ to_lookup = None
       THEN /\ err' = "KeyError"
            /\ UNCHANGED graph
       ELSE LET from_node_key == from_lookup[1]
                to_node_key   == to_lookup[1]
                err_reason    == EdgeErrReason(from_node_id, to_node_id,
                                               from_node_key, to_node_key)
                attrs == [ activation_shape |-> tensor_shape,
                           in_port |-> input_port_id, dtype |-> dtype ]
            IN  IF err_reason # "none"
                THEN /\ err' = err_reason
                     /\ UNCHANGED graph
                ELSE /\ \/ << from_node_key, to_node_key >> \in EdgesOf(nx_graph)
                        \/ Cardinality(EdgesOf(nx_graph)) < max_edges
                     /\ err' = "none"
                     /\ nx_graph' = nx_add_edge(nx_graph, from_node_key, to_node_key, attrs)
                     /\ UNCHANGED << node_id_to_key_dict, input_nncf_nodes, output_nncf_nodes >>

add_edge_between_nncf_nodes(from_node_id, to_node_id, tensor_shape, input_port_id, dtype) ==
    add_edge_upto(from_node_id, to_node_id, tensor_shape, input_port_id, dtype, MaxEdges)

\* ------------------------------------------------------------------ queries
\* list(self._input_nncf_nodes.values()) / list(self._output_nncf_nodes.values())
get_input_nodes == input_nncf_nodes
get_output_nodes == output_nncf_nodes

\* G.in_edges(key): the edges into key, in the insertion order of its predecessors.
in_edges(G, key) == [ i \in 1..Len(G.pred[key]) |-> << G.pred[key][i], key >> ]

\* G.out_edges(key): the edges out of key, in the insertion order of its successors.
out_edges(G, key) == [ i \in 1..Len(G.succ[key]) |-> << key, G.succ[key][i] >> ]

\* Insert x into the sorted sequence s after every element whose key is <= its own.
RECURSIVE InsertSorted(_, _, _)
InsertSorted(s, x, keyOf) ==
    IF s = << >> THEN << x >>
    ELSE IF keyOf[s[Len(s)]] <= keyOf[x]
         THEN Append(s, x)
         ELSE Append(InsertSorted(SubSeq(s, 1, Len(s) - 1), x, keyOf), s[Len(s)])

\* Python's sorted(s, key=...): ascending by key and stable.
RECURSIVE sorted(_, _)
sorted(s, keyOf) ==
    IF s = << >> THEN << >>
    ELSE InsertSorted(sorted(SubSeq(s, 1, Len(s) - 1), keyOf), s[Len(s)], keyOf)

\* The in_port of every edge of the graph: the sort key of get_input_edges.
InPortOf(G) == [ e \in EdgesOf(G) |-> G.adj[e].in_port ]

\* Mutant: the edges left in the order of G.in_edges.
SortInputEdges_Unsorted(G, edges) == edges

SortInputEdges(G, edges) == sorted(edges, InPortOf(G))

\* get_input_edges(node): an OrderedDict, kept as the sequence of its
\* (edge, attrs) items.
get_input_edges(node_id) ==
    LET nx_node_key == node_id_to_key_dict[node_id]
        input_edges == SortInputEdges(nx_graph, in_edges(nx_graph, nx_node_key))
    IN  [ i \in 1..Len(input_edges) |->
            [ edge |-> input_edges[i], attrs |-> nx_graph.adj[input_edges[i]] ] ]

\* get_output_edges(node): a dict over G.out_edges(key), kept as the sequence of its items.
get_output_edges(node_id) ==
    LET nx_node_key == node_id_to_key_dict[node_id]
        output_edges == out_edges(nx_graph, nx_node_key)
    IN  [ i \in 1..Len(output_edges) |->
            [ edge |-> output_edges[i], attrs |-> nx_graph.adj[output_edges[i]] ] ]

\* --------------------------------------------------------- topological_sort
\* key=lambda x: self._nx_graph.nodes[x]['id']
PositionOfKey(G) ==
    [ k \in NodeKeys(G) |-> (CHOOSE i \in 1..Len(G.node) : G.node[i].key = k) ]

SortKeyOf(G) == [ k \in NodeKeys(G) |-> G.node[PositionOfKey(G)[k]].id ]

\* nodeid_map = {n: i for i, n in enumerate(G)}
nodeid_map(G) == PositionOfKey(G)

\* Mutant: the heap ordered by the position of the node alone (the key argument left out).
HeapPop_ByPosition(G, zero_indegree) ==
    CHOOSE v \in zero_indegree :
        \A w \in zero_indegree : nodeid_map(G)[v] <= nodeid_map(G)[w]

\* heapq.heappop over the tuples (key(v), nodeid_map[v], v).
HeapPop(G, zero_indegree) ==
    CHOOSE v \in zero_indegree :
        \A w \in zero_indegree :
            \/ SortKeyOf(G)[v] < SortKeyOf(G)[w]
            \/ /\ SortKeyOf(G)[v] = SortKeyOf(G)[w]
               /\ nodeid_map(G)[v] <= nodeid_map(G)[w]

\* for _, child in G.edges(node): decrement the child's in-degree; a child
\* that is not in indegree_map raises NetworkXUnfeasible; a child that
\* reaches 0 is pushed on the heap and deleted from the map.
RECURSIVE VisitChildren(_, _)
VisitChildren(children, st) ==
    IF children = << >> \/ st.raised THEN st
    ELSE LET child == Head(children)
         IN  IF child \notin DOMAIN st.indegree_map
             THEN [ st EXCEPT !.raised = TRUE ]
             ELSE IF st.indegree_map[child] = 1
                  THEN VisitChildren(Tail(children),
                         [ st EXCEPT
                             !.indegree_map = [ k \in (DOMAIN st.indegree_map) \ {child}
                                                  |-> st.indegree_map[k] ],
                             !.zero_indegree = @ \cup {child} ])
                  ELSE VisitChildren(Tail(children),
                         [ st EXCEPT !.indegree_map[child] = @ - 1 ])

\* Mutant: the generator ends without the final "graph contains a cycle" check.
RECURSIVE TopoLoop_NoUnfeasible(_, _)
TopoLoop_NoUnfeasible(G, st) ==
    IF st.raised THEN st
    ELSE IF st.zero_indegree = {}
         THEN st
         ELSE LET node == HeapPop(G, st.zero_indegree)
                  popped == [ st EXCEPT !.zero_indegree = @ \ {node} ]
                  visited == VisitChildren(G.succ[node], popped)
              IN  IF visited.raised THEN visited
                  ELSE TopoLoop_NoUnfeasible(G, [ visited EXCEPT !.yielded = Append(@, node) ])

RECURSIVE TopoLoop(_, _)
TopoLoop(G, st) ==
    IF st.raised THEN st
    ELSE IF st.zero_indegree = {}
         THEN [ st EXCEPT !.raised = (DOMAIN st.indegree_map # {}) ]
         ELSE LET node == HeapPop(G, st.zero_indegree)
                  popped == [ st EXCEPT !.zero_indegree = @ \ {node} ]
                  visited == VisitChildren(G.succ[node], popped)
              IN  IF visited.raised THEN visited
                  ELSE TopoLoop(G, [ visited EXCEPT !.yielded = Append(@, node) ])

\* nx.lexicographical_topological_sort(G, key): the keys in the order they
\* are yielded, or raised when NetworkXUnfeasible ends the generator.
lexicographical_topological_sort(G) ==
    TopoLoop(G, [ indegree_map  |-> [ k \in { v \in NodeKeys(G) : Len(G.pred[v]) > 0 }
                                        |-> Len(G.pred[k]) ],
                  zero_indegree |-> { v \in NodeKeys(G) : Len(G.pred[v]) = 0 },
                  yielded       |-> << >>,
                  raised        |-> FALSE ])

\* topological_sort(): the nodes (by node_id) in sorted order; no list is
\* returned when the generator raises.
topological_sort ==
    LET r == lexicographical_topological_sort(nx_graph)
    IN  [ raised |-> r.raised,
          nodes  |-> IF r.raised THEN << >>
                     ELSE [ i \in 1..Len(r.yielded) |-> SortKeyOf(nx_graph)[r.yielded[i]] ] ]

\* ------------------------------------------- _get_nncf_graph_pattern_input_output
\* nx.edge_boundary(G, nbunch1): the edges from a node of nbunch1 to a node
\* outside it. It iterates a Python set, so its result is kept as a set.
edge_boundary(G, nbunch1) ==
    LET nset1 == nbunch1 \cap NodeKeys(G)
    IN  { e \in EdgesOf(G) : e[1] \in nset1 /\ e[2] \notin nset1 }

\* Mutant: the complement taken to be the match itself.
MatchComplement_Same(G, match) == match

\* list(filter(lambda x: x not in match, self._nx_graph.nodes.keys()))
MatchComplement(G, match) == NodeKeys(G) \ match

NodeOfKey(G, key) == G.node[PositionOfKey(G)[key]]

NNCFGraphEdge(G, e) ==
    [ from_node |-> NodeOfKey(G, e[1]), to_node |-> NodeOfKey(G, e[2]),
      tensor_shape |-> G.adj[e].activation_shape ]

get_nncf_graph_pattern_input_output(match) ==
    LET out_edge_boundary == edge_boundary(nx_graph, match)
        complement == MatchComplement(nx_graph, match)
        in_edge_boundary == edge_boundary(nx_graph, complement)
        boundary == in_edge_boundary \cup out_edge_boundary
        outs == { e \in boundary : e[1] \in match }
        ins  == { e \in boundary : e[1] \notin match /\ e[2] \in match }
    IN  [ raised |-> \E e \in boundary : e[1] \notin match /\ e[2] \notin match,
          input_edges  |-> { NNCFGraphEdge(nx_graph, e) : e \in ins },
          output_edges |-> { NNCFGraphEdge(nx_graph, e) : e \in outs },
          input_nodes  |-> { NodeOfKey(nx_graph, k) : k \in { m \in match : nx_graph.pred[m] = << >> } },
          output_nodes |-> { NodeOfKey(nx_graph, k) : k \in { m \in match : nx_graph.succ[m] = << >> } } ]

\* ------------------------------------------------------------------- __eq__
\* iso.categorical_node_match(['id', 'key', 'module_attributes'], [None] * 3):
\* no call of the model passes module_attributes, so both sides default to None.
node_match(n1, n2) == n1.id = n2.id /\ n1.key = n2.key

\* iso.categorical_edge_match(['activation_shape', 'in_port'], [None] * 2)
edge_match(e1, e2) ==
    e1.activation_shape = e2.activation_shape /\ e1.in_port = e2.in_port

\* nx.is_isomorphic(G1, G2, node_match, edge_match): some bijection of the
\* nodes keeps the edges both ways and matches the attributes.
is_isomorphic(G1, G2) ==
    /\ Len(G1.node) = Len(G2.node)
    /\ Cardinality(EdgesOf(G1)) = Cardinality(EdgesOf(G2))
    /\ \E f \in [ NodeKeys(G1) -> NodeKeys(G2) ] :
          /\ \A a, b \in NodeKeys(G1) : a # b => f[a] # f[b]
          /\ \A a \in NodeKeys(G1) : node_match(NodeOfKey(G1, a), NodeOfKey(G2, f[a]))
          /\ \A a, b \in NodeKeys(G1) :
                /\ (<< a, b >> \in EdgesOf(G1)) <=> (<< f[a], f[b] >> \in EdgesOf(G2))
                /\ (<< a, b >> \in EdgesOf(G1))
                      => edge_match(G1.adj[<< a, b >>], G2.adj[<< f[a], f[b] >>])

\* NNCFGraph.__eq__(self, other) on the two nx graphs.
graphs_equal(G, other) == is_isomorphic(G, other)

\* get_node_by_name(name): the nodes whose node_name is name are collected in
\* node order; none or more than one raises RuntimeError with the message
\* kept in raised, exactly one is returned.
RECURSIVE SelectByName(_, _)
SelectByName(nodes, name) ==
    IF nodes = << >> THEN << >>
    ELSE IF Head(nodes).node_name = name
         THEN << Head(nodes) >> \o SelectByName(Tail(nodes), name)
         ELSE SelectByName(Tail(nodes), name)

\* Mutant: the first match is returned without the more-than-one check.
get_node_by_name_First(name) ==
    LET matches == SelectByName(nx_graph.node, name)
    IN  IF matches = << >>
        THEN [ raised |-> "Could not find a node", node |-> None ]
        ELSE [ raised |-> "none", node |-> Some(matches[1]) ]

get_node_by_name(name) ==
    LET matches == SelectByName(nx_graph.node, name)
    IN  IF matches = << >>
        THEN [ raised |-> "Could not find a node", node |-> None ]
        ELSE IF Len(matches) > 1
             THEN [ raised |-> "More than one node", node |-> None ]
             ELSE [ raised |-> "none", node |-> Some(matches[1]) ]

\* get_all_nodes(): one NNCFNode per node of the nx graph, in node order.
get_all_nodes == nx_graph.node

\* get_node_by_id(node_id) = get_node_by_key(get_node_key_by_id(node_id)).
get_node_by_id(node_id) ==
    LET lookup == get_node_key_by_id(node_id_to_key_dict, node_id)
    IN  IF lookup = None THEN None ELSE Some(NodeOfKey(nx_graph, lookup[1]))

\* The NNCFNode that get_node_by_id / get_node_by_key / get_all_nodes return
\* is NNCFNode(nx_node[ID], nx_node): its data IS the attribute dict that the
\* nx graph holds for the node, not a copy. A caller's
\*     graph.get_node_by_id(node_id).data[METATYPE_ATTR] = node_metatype
\* therefore writes into the dict of the nx graph.
SetDataOfLookedUpNode(node_id, node_metatype) ==
    /\ node_id \in DOMAIN node_id_to_key_dict
    /\ LET pos == PositionOfKey(nx_graph)[node_id_to_key_dict[node_id]]
       IN  nx_graph' = [ nx_graph EXCEPT !.node[pos].metatype = node_metatype ]
    /\ call' = [ op |-> "set_data", of |-> "get_node_by_id", node_id |-> node_id ]
    /\ err' = "none"
    /\ UNCHANGED << node_id_to_key_dict, input_nncf_nodes, output_nncf_nodes >>

\* The NNCFNode that add_nncf_node returns is the object it has stored in
\* _input_nncf_nodes / _output_nncf_nodes, which get_input_nodes and
\* get_output_nodes hand out again; its data is the local dict attrs, of
\* which nx add_node took a copy. A caller's write into that data changes the
\* indexed node and leaves the nx graph alone.
SetDataInIndex(index, node_id, node_metatype) ==
    [ i \in 1..Len(index) |->
        IF index[i].id = node_id THEN [ index[i] EXCEPT !.metatype = node_metatype ]
        ELSE index[i] ]

SetDataOfInsertedNode(node_id, node_metatype) ==
    /\ node_id \in DOMAIN node_id_to_key_dict
    /\ input_nncf_nodes' = SetDataInIndex(input_nncf_nodes, node_id, node_metatype)
    /\ output_nncf_nodes' = SetDataInIndex(output_nncf_nodes, node_id, node_metatype)
    /\ call' = [ op |-> "set_data", of |-> "add_nncf_node", node_id |-> node_id ]
    /\ err' = "none"
    /\ UNCHANGED << nx_graph, node_id_to_key_dict >>

\* ---------------------------------------------------------------- traversal
\* Mutant: the neighbours on both sides of the node, as of an undirected graph.
get_next_nodes_Undirected(node) ==
    LET key == node_id_to_key_dict[node.id]
        nx_node_keys == nx_graph.succ[key] \o nx_graph.pred[key]
    IN  [ i \in 1..Len(nx_node_keys) |-> NodeOfKey(nx_graph, nx_node_keys[i]) ]

\* get_next_nodes(node): the consumers of node, in the order of succ.
get_next_nodes(node) ==
    LET nx_node_keys == nx_graph.succ[node_id_to_key_dict[node.id]]
    IN  [ i \in 1..Len(nx_node_keys) |-> NodeOfKey(nx_graph, nx_node_keys[i]) ]

\* get_previous_nodes(node): the producers of node, in the order of pred.
get_previous_nodes(node) ==
    LET nx_node_keys == nx_graph.pred[node_id_to_key_dict[node.id]]
    IN  [ i \in 1..Len(nx_node_keys) |-> NodeOfKey(nx_graph, nx_node_keys[i]) ]

\* Mutant: the direction flag is ignored.
get_nodes_fn_Forward(curr_node, traverse_forward) == get_next_nodes(curr_node)

\* get_nodes_fn = self.get_next_nodes if traverse_forward else self.get_previous_nodes
get_nodes_fn(curr_node, traverse_forward) ==
    IF traverse_forward THEN get_next_nodes(curr_node) ELSE get_previous_nodes(curr_node)

\* The traverse_function of the caller: one that finishes on the nodes whose
\* id is in stop_at (never, when stop_at is empty) and returns the output it
\* was given extended by the id of the node, as a new list.
traverse_function(stop_at, curr_node, output) ==
    [ is_finished |-> curr_node.id \in stop_at,
      output      |-> Append(output, curr_node.id) ]

\* The interpreter ends a recursion deeper than sys.getrecursionlimit() frames
\* with RecursionError. The limit stands above the depth that any acyclic
\* graph of the model can need.
RecursionLimit == MaxNodes + 2

\* _traverse_graph_recursive_helper. tr records the run: calls holds one
\* entry per call of traverse_function, in the order of the calls, with the
\* node, the output passed in and the chain of calls (path, by node id) that
\* led to it; depth is the deepest recursion so far; raised is RecursionError.
\* The output that a recursive call returns is dropped by its caller.
RECURSIVE traverse_graph_recursive_helper(_, _, _, _, _, _)
RECURSIVE traverse_each(_, _, _, _, _, _)
traverse_graph_recursive_helper(curr_node, stop_at, output, traverse_forward, path, tr) ==
    IF Len(path) > RecursionLimit
    THEN [ tr EXCEPT !.raised = TRUE ]
    ELSE LET r == traverse_function(stop_at, curr_node, output)
             called == [ tr EXCEPT
                           !.calls = Append(@, [ node   |-> curr_node.id,
                                                 output |-> output,
                                                 path   |-> path ]),
                           !.depth = IF Len(path) > @ THEN Len(path) ELSE @ ]
         IN  IF ~r.is_finished
             THEN traverse_each(get_nodes_fn(curr_node, traverse_forward), stop_at,
                                r.output, traverse_forward, path, called)
             ELSE called

\* for node in get_nodes_fn(curr_node): self._traverse_graph_recursive_helper(node, ...)
traverse_each(nodes, stop_at, output, traverse_forward, path, tr) ==
    IF tr.raised \/ nodes = << >>
    THEN tr
    ELSE traverse_each(Tail(nodes), stop_at, output, traverse_forward, path,
                       traverse_graph_recursive_helper(Head(nodes), stop_at, output,
                                                       traverse_forward,
                                                       Append(path, Head(nodes).id), tr))

\* traverse_graph(curr_node, traverse_function, traverse_forward): output = []
traverse_graph(curr_node, stop_at, traverse_forward) ==
    traverse_graph_recursive_helper(curr_node, stop_at, << >>, traverse_forward,
                                    << curr_node.id >>,
                                    [ calls |-> << >>, depth |-> 0, raised |-> FALSE ])

\* ------------------------------------------------------------ specification
AddNode ==
    \E node_name \in NodeNames, node_metatype \in Metatypes,
       node_id_override \in {None} \cup { Some(i) : i \in IdOverrides } :
        add_nncf_node(node_name, node_metatype, node_id_override)

AddEdge ==
    \E from_node_id \in (DOMAIN node_id_to_key_dict) \cup IdOverrides,
       to_node_id \in (DOMAIN node_id_to_key_dict) \cup IdOverrides,
       tensor_shape \in TensorShapes, input_port_id \in InputPortIds, dtype \in Dtypes :
        add_edge_between_nncf_nodes(from_node_id, to_node_id, tensor_shape, input_port_id, dtype)

Next == AddNode \/ AddEdge

Spec == Init /\ [][Next]_vars

\* Graphs whose nodes are named from two names, for the lookup by name.
LookupNames == { "a", "b" }

AddNamedNode ==
    \E node_name \in LookupNames, node_metatype \in Metatypes,
       node_id_override \in {None} \cup { Some(i) : i \in IdOverrides } :
        add_nncf_node(node_name, node_metatype, node_id_override)

NextNames == AddNamedNode

SpecNames == Init /\ [][NextNames]_vars

\* Insertions interleaved with callers writing into the data of the nodes
\* that the graph has handed out.
SetLookedUpNode ==
    \E node_id \in DOMAIN node_id_to_key_dict, node_metatype \in Metatypes :
        SetDataOfLookedUpNode(node_id, node_metatype)

SetInsertedNode ==
    \E node_id \in DOMAIN node_id_to_key_dict, node_metatype \in Metatypes :
        SetDataOfInsertedNode(node_id, node_metatype)

NextAliased == AddNode \/ SetLookedUpNode \/ SetInsertedNode

SpecAliased == Init /\ [][NextAliased]_vars

\* Graphs for the traversal: nodes with generated ids, edges on port 0
\* between present nodes, and room for one edge more, so that a node can be
\* reached along two paths.
TraverseMaxEdges == MaxEdges + 1

AddTraversedNode ==
    \E node_name \in NodeNames, node_metatype \in Metatypes :
        add_nncf_node(node_name, node_metatype, None)

AddTraversedEdge ==
    \E from_node_id \in DOMAIN node_id_to_key_dict,
       to_node_id \in DOMAIN node_id_to_key_dict,
       tensor_shape \in TensorShapes, dtype \in Dtypes :
        add_edge_upto(from_node_id, to_node_id, tensor_shape, 0, dtype, TraverseMaxEdges)

NextTraverse == AddTraversedNode \/ AddTraversedEdge

SpecTraverse == Init /\ [][NextTraverse]_vars

\* ------------------------------------------------------------------ claims
IsNodeCall(c) == c.op = "add_nncf_node"
IsEdgeCall(c) == c.op = "add_edge_between_nncf_nodes"

TopologyReasons ==
    { "cannot add edges *from* output nodes", "cannot add edges *to* input nodes" }

GraphNodeIds == { nx_graph.node[i].id : i \in 1..Len(nx_graph.node) }

\* C1: insert_edge between two present nodes fails with the topology error
\* when from_id is a registered output node or to_id is a registered input
\* node, and then leaves the graph unchanged; otherwise it succeeds and the
\* edge is in the graph.
C1_InsertEdgeTopology ==
    [][ ( /\ IsEdgeCall(call')
          /\ call'.from_node_id \in GraphNodeIds
          /\ call'.to_node_id \in GraphNodeIds )
        => LET invalid == \/ call'.from_node_id \in IndexIds(get_output_nodes)
                          \/ call'.to_node_id \in IndexIds(get_input_nodes)
               e == << node_id_to_key_dict[call'.from_node_id],
                       node_id_to_key_dict[call'.to_node_id] >>
           IN  /\ invalid => (err' \in TopologyReasons /\ graph' = graph)
               /\ ~invalid => (err' = "none" /\ e \in EdgesOf(nx_graph')) ]_vars

\* C1 witness: an edge from an output node was refused on a graph of three
\* nodes that already has an edge.
C1_Witness ==
    /\ IsEdgeCall(call)
    /\ err = "cannot add edges *from* output nodes"
    /\ call.from_node_id \in IndexIds(get_output_nodes)
    /\ call.to_node_id \in GraphNodeIds
    /\ Len(nx_graph.node) = 3
    /\ EdgesOf(nx_graph) # {}

\* C2: a successful insert_node adds one node whose id is the override when
\* one is given, else 1 + max(existing ids), else 0 on the empty graph; the
\* id is new, and without an override larger than every existing id.
C2_NodeIdAssignment ==
    [][ (IsNodeCall(call') /\ err' = "none")
        => LET ids == GraphNodeIds
               new == nx_graph'.node[Len(nx_graph'.node)].id
               o   == call'.node_id_override
           IN  /\ Len(nx_graph'.node) = Len(nx_graph.node) + 1
               /\ DOMAIN node_id_to_key_dict' = ids \cup {new}
               /\ new \notin ids
               /\ (o # None) => new = o[1]
               /\ (o = None /\ ids = {}) => new = 0
               /\ (o = None /\ ids # {}) =>
                      (new = Max(ids) + 1 /\ \A i \in ids : i < new) ]_vars

\* C2 witness: an insertion without override got id 3 on a graph whose only
\* other node has the overridden id 2.
C2_Witness ==
    /\ IsNodeCall(call)
    /\ call.node_id_override = None
    /\ err = "none"
    /\ Len(nx_graph.node) = 2
    /\ nx_graph.node[1].id = 2
    /\ nx_graph.node[2].id = 3

UniqueNodeIds ==
    \A i, j \in 1..Len(nx_graph.node) :
        i # j => nx_graph.node[i].id # nx_graph.node[j].id

\* C3: insert_node fails with the duplicate-id error exactly when the
\* assigned id is the id of a node of the graph (which only an override can
\* be), a failed insert_node leaves the graph unchanged, and no two nodes of
\* a reachable graph share a node_id.
C3_DuplicateId ==
    /\ [] UniqueNodeIds
    /\ [][ IsNodeCall(call')
           => LET o   == call'.node_id_override
                  dup == o # None /\ o[1] \in GraphNodeIds
              IN  /\ (err' = "already in the NNCFGraph") <=> dup
                  /\ (err' # "none") => graph' = graph ]_vars

\* C3 witness: an override that names the id of a present node was refused.
C3_Witness ==
    /\ IsNodeCall(call)
    /\ err = "already in the NNCFGraph"
    /\ call.node_id_override # None
    /\ call.node_id_override[1] \in GraphNodeIds
    /\ Len(nx_graph.node) = 2

PortsOf(items, e) ==
    { items[i].attrs.in_port : i \in { j \in 1..Len(items) : items[j].edge = e } }

\* C4: after a successful insert_edge the edge is in both adjacency
\* directions, and edges are not deduplicated: an edge inserted for a pair
\* that is already connected is returned next to the earlier ones by
\* get_input_edges(to) and get_output_edges(from).
C4_ParallelEdgesKept ==
    [][ \A f, t \in GraphNodeIds, p \in InputPortIds :
          ( /\ IsEdgeCall(call') /\ err' = "none"
            /\ call'.from_node_id = f /\ call'.to_node_id = t
            /\ call'.input_port_id = p )
          => LET u == node_id_to_key_dict[f]
                 v == node_id_to_key_dict[t]
             IN  /\ SeqContains(nx_graph'.succ[u], v)
                 /\ SeqContains(nx_graph'.pred[v], u)
                 /\ PortsOf(get_input_edges(t), << u, v >>)' =
                        PortsOf(get_input_edges(t), << u, v >>) \cup {p}
                 /\ PortsOf(get_output_edges(f), << u, v >>)' =
                        PortsOf(get_output_edges(f), << u, v >>) \cup {p} ]_vars

IsInputNode(node) == node.metatype \in get_input_metatypes
IsOutputNode(node) == node.metatype \in get_output_metatypes

\* C5: get_input_nodes() is the inserted nodes whose metatype is an input
\* metatype and get_output_nodes() those whose metatype is an output
\* metatype, both in insertion order; only insert_node changes them.
C5_IoIndexes ==
    /\ [] /\ get_input_nodes = SelectSeq(nx_graph.node, IsInputNode)
          /\ get_output_nodes = SelectSeq(nx_graph.node, IsOutputNode)
    /\ [][ ~IsNodeCall(call')
           => /\ get_input_nodes' = get_input_nodes
              /\ get_output_nodes' = get_output_nodes ]_vars

\* C5 witness: nodes 0 (input), 1 (conv), 2 (output) with an edge inserted
\* last: the input nodes are [0], the output nodes [2].
C5_Witness ==
    /\ IsEdgeCall(call)
    /\ err = "none"
    /\ [ i \in 1..Len(nx_graph.node) |-> nx_graph.node[i].id ] = << 0, 1, 2 >>
    /\ [ i \in 1..Len(get_input_nodes) |-> get_input_nodes[i].id ] = << 0 >>
    /\ [ i \in 1..Len(get_output_nodes) |-> get_output_nodes[i].id ] = << 2 >>
    /\ nx_graph.node[2].metatype = "Conv2dMetatype"

\* C6: insert_edge with an endpoint id that is no node of the graph fails
\* (KeyError of the id registry) and leaves the graph unchanged.
C6_UnknownNode ==
    [][ ( /\ IsEdgeCall(call')
          /\ \/ call'.from_node_id \notin GraphNodeIds
             \/ call'.to_node_id \notin GraphNodeIds )
        => (err' = "KeyError" /\ graph' = graph) ]_vars

\* C6 witness: an edge to an absent id from a present node was refused on a
\* graph that has an edge.
C6_Witness ==
    /\ IsEdgeCall(call)
    /\ err = "KeyError"
    /\ call.from_node_id \in GraphNodeIds
    /\ call.to_node_id \notin GraphNodeIds
    /\ EdgesOf(nx_graph) # {}

InputPortsOf(node_id) ==
    [ i \in 1..Len(get_input_edges(node_id)) |-> get_input_edges(node_id)[i].attrs.in_port ]

ReturnsAllInputEdges(node_id) ==
    /\ { get_input_edges(node_id)[i].edge : i \in 1..Len(get_input_edges(node_id)) }
           = { e \in EdgesOf(nx_graph) : e[2] = node_id_to_key_dict[node_id] }
    /\ Len(get_input_edges(node_id)) =
           Cardinality({ e \in EdgesOf(nx_graph) : e[2] = node_id_to_key_dict[node_id] })

\* C7 (as claimed): get_input_edges(n) returns all incoming edges of n
\* ordered strictly ascending by input_port_id.
C7_StrictlyAscending ==
    \A n \in GraphNodeIds :
        /\ ReturnsAllInputEdges(n)
        /\ \A i, j \in 1..Len(InputPortsOf(n)) :
               i < j => InputPortsOf(n)[i] < InputPortsOf(n)[j]

\* C7 (amended): get_input_edges(n) returns all incoming edges of n ordered
\* ascending by input_port_id, edges of equal port next to each other.
C7_Ascending ==
    \A n \in GraphNodeIds :
        /\ ReturnsAllInputEdges(n)
        /\ \A i, j \in 1..Len(InputPortsOf(n)) :
               i < j => InputPortsOf(n)[i] <= InputPortsOf(n)[j]

\* C7 witness: a node whose two incoming edges were inserted with the larger
\* port first is returned with the smaller port first.
C7_Witness ==
    \E n \in GraphNodeIds :
        LET key == node_id_to_key_dict[n]
            ins == in_edges(nx_graph, key)
        IN  /\ Len(ins) = 2
            /\ nx_graph.adj[ins[1]].in_port = 1
            /\ nx_graph.adj[ins[2]].in_port = 0
            /\ InputPortsOf(n) = << 0, 1 >>
            /\ get_input_edges(n)[1].edge = ins[2]

Producers(G, S) == { e[1] : e \in { x \in EdgesOf(G) : x[2] \in S } }
Consumers(G, S) == { e[2] : e \in { x \in EdgesOf(G) : x[1] \in S } }

RECURSIVE Descendants(_, _, _)
Descendants(G, S, k) ==
    IF k = 0 THEN S ELSE Descendants(G, S \cup Consumers(G, S), k - 1)

\* No node is reached from itself along one or more edges.
IsAcyclic(G) ==
    \A n \in NodeKeys(G) :
        n \notin Descendants(G, Consumers(G, {n}), Len(G.node))

IdsOfKeys(G, S) == { SortKeyOf(G)[k] : k \in S }

\* The ids that are ready once the ids of done are output: not output yet,
\* every producer output.
ReadyIds(G, done) ==
    { i \in IdsOfKeys(G, NodeKeys(G)) \ done :
        \A e \in EdgesOf(G) : SortKeyOf(G)[e[2]] = i => SortKeyOf(G)[e[1]] \in done }

\* C8: on an acyclic graph topological_sort returns every node exactly once,
\* each edge's producer before its consumer, and at every position the
\* smallest node_id among the nodes that are ready there.
C8_TopologicalSort ==
    IsAcyclic(nx_graph) =>
        LET r == topological_sort
            pos(i) == CHOOSE p \in 1..Len(r.nodes) : r.nodes[p] = i
        IN  /\ ~r.raised
            /\ Len(r.nodes) = Len(nx_graph.node)
            /\ Range(r.nodes) = GraphNodeIds
            /\ \A e \in EdgesOf(nx_graph) :
                   pos(SortKeyOf(nx_graph)[e[1]]) < pos(SortKeyOf(nx_graph)[e[2]])
            /\ \A p \in 1..Len(r.nodes) :
                   LET ready == ReadyIds(nx_graph, { r.nodes[q] : q \in 1..(p - 1) })
                   IN  r.nodes[p] \in ready /\ \A i \in ready : r.nodes[p] <= i

\* C8 witness: an acyclic graph of three nodes with an edge, two nodes ready
\* at the start, whose order is neither the insertion order nor the id order.
C8_Witness ==
    /\ IsAcyclic(nx_graph)
    /\ Len(nx_graph.node) = 3
    /\ EdgesOf(nx_graph) # {}
    /\ Cardinality(ReadyIds(nx_graph, {})) = 2
    /\ ~topological_sort.raised
    /\ topological_sort.nodes # [ i \in 1..3 |-> nx_graph.node[i].id ]
    /\ \E p \in 1..2 : topological_sort.nodes[p] > topological_sort.nodes[p + 1]

EdgeCut(G, match) == { e \in EdgesOf(G) : (e[1] \in match) # (e[2] \in match) }

\* C9: for every subset match of the node keys, the input and output edges
\* of the boundary are together exactly the edges with one endpoint in
\* match; input edges lead from outside into match, output edges from match
\* to outside; the invalid-expression error is not raised.
C9_Boundary ==
    \A match \in SUBSET NodeKeys(nx_graph) :
        LET io == get_nncf_graph_pattern_input_output(match)
        IN  /\ ~io.raised
            /\ io.input_edges \cup io.output_edges
                   = { NNCFGraphEdge(nx_graph, e) : e \in EdgeCut(nx_graph, match) }
            /\ Cardinality(io.input_edges) + Cardinality(io.output_edges)
                   = Cardinality(EdgeCut(nx_graph, match))
            /\ \A e \in io.input_edges :
                   e.to_node.key \in match /\ e.from_node.key \notin match
            /\ \A e \in io.output_edges :
                   e.from_node.key \in match /\ e.to_node.key \notin match

\* C9 witness: a match of one node with an edge coming in and an edge going out.
C9_Witness ==
    \E k \in NodeKeys(nx_graph) :
        LET io == get_nncf_graph_pattern_input_output({k})
        IN  /\ Cardinality(io.input_edges) = 1
            /\ Cardinality(io.output_edges) = 1
            /\ Len(nx_graph.node) = 3

\* C10: graphs_equal is reflexive and symmetric, and a graph compares unequal
\* to its state before any successful insert_node or insert_edge.
C10_UnequalAfterInsertion ==
    [][ (err' = "none" /\ (IsNodeCall(call') \/ IsEdgeCall(call')))
        => /\ ~graphs_equal(nx_graph', nx_graph)
           /\ graphs_equal(nx_graph', nx_graph')
           /\ graphs_equal(nx_graph', nx_graph) = graphs_equal(nx_graph, nx_graph') ]_vars

\* C12: topological_sort raises (NetworkXUnfeasible, the cyclic-graph error)
\* whenever the graph contains a directed cycle; a self-loop or a cycle that
\* add_edge_between_nncf_nodes accepted between nodes that are neither input
\* nor output nodes is such a cycle.
C12_CycleRaises ==
    ~IsAcyclic(nx_graph) => topological_sort.raised

\* C12 witness: an accepted self-loop, and an accepted cycle through two
\* nodes, each making topological_sort raise.
HasSelfLoop(G) == \E k \in NodeKeys(G) : << k, k >> \in EdgesOf(G)

HasTwoCycle(G) ==
    \E u, v \in NodeKeys(G) :
        u # v /\ << u, v >> \in EdgesOf(G) /\ << v, u >> \in EdgesOf(G)

C12_Witness ==
    /\ IsEdgeCall(call) /\ err = "none"
    /\ HasTwoCycle(nx_graph) /\ ~HasSelfLoop(nx_graph)
    /\ input_nncf_nodes = << >> /\ output_nncf_nodes = << >>
    /\ topological_sort.raised

C12_WitnessSelfLoop ==
    /\ IsEdgeCall(call) /\ err = "none"
    /\ HasSelfLoop(nx_graph) /\ Cardinality(EdgesOf(nx_graph)) = 1
    /\ topological_sort.raised

\* C14: in every state reached by add_nncf_node and
\* add_edge_between_nncf_nodes calls, failed ones included, no node of the
\* output index has an outgoing edge and no node of the input index has an
\* incoming edge.
C14_IoNodesAtTheBorder ==
    /\ \A i \in 1..Len(output_nncf_nodes) : nx_graph.succ[output_nncf_nodes[i].key] = << >>
    /\ \A i \in 1..Len(input_nncf_nodes) : nx_graph.pred[input_nncf_nodes[i].key] = << >>

\* C14 witness: an input node feeds an output node, and the last call, an
\* edge in the refused direction, has just failed.
C14_Witness ==
    /\ IsEdgeCall(call) /\ err \in TopologyReasons
    /\ \E i \in 1..Len(input_nncf_nodes), o \in 1..Len(output_nncf_nodes) :
           /\ << input_nncf_nodes[i].key, output_nncf_nodes[o].key >> \in EdgesOf(nx_graph)
           /\ call.from_node_id = output_nncf_nodes[o].id
           /\ call.to_node_id = input_nncf_nodes[i].id

\* C13: get_node_by_name returns the node when exactly one node of the graph
\* has that node_name, raises "Could not find a node" when none has it and
\* raises "More than one node" when several nodes share it; add_nncf_node
\* accepts a name that a node with another id already uses.
NodesNamed(name) ==
    { i \in 1..Len(nx_graph.node) : nx_graph.node[i].node_name = name }

C13_LookupByName ==
    \A name \in LookupNames :
        LET r == get_node_by_name(name)
            n == Cardinality(NodesNamed(name))
        IN  /\ n = 0 => r.raised = "Could not find a node" /\ r.node = None
            /\ n > 1 => r.raised = "More than one node" /\ r.node = None
            /\ n = 1 => /\ r.raised = "none"
                        /\ \E i \in NodesNamed(name) : r.node = Some(nx_graph.node[i])

\* C13 witness: the last insertion reused the name of a node with another
\* id, so that this name is ambiguous while the other name is unique.
C13_Witness ==
    /\ IsNodeCall(call) /\ err = "none"
    /\ Cardinality(NodesNamed("a")) = 2
    /\ Cardinality(NodesNamed("b")) = 1
    /\ get_node_by_name("a").raised = "More than one node"
    /\ get_node_by_name("b").raised = "none"

\* The lookup of a name that no node has.
C13_WitnessNotFound ==
    /\ Cardinality(NodesNamed("a")) = 2
    /\ get_node_by_name("b").raised = "Could not find a node"

\* C15: the graph exclusively owns its node data: after a caller has written
\* into the data of a node returned by add_nncf_node or by a lookup
\* (get_node_by_id, get_node_by_key, get_all_nodes, get_input_nodes), every
\* query returns for each node what it returned before the write.
IsSetData(c) == c.op = "set_data"

C15_ExclusiveOwnership ==
    [][ IsSetData(call')
        => /\ get_all_nodes' = get_all_nodes
           /\ get_input_nodes' = get_input_nodes
           /\ get_output_nodes' = get_output_nodes
           /\ \A node_id \in DOMAIN node_id_to_key_dict :
                  get_node_by_id(node_id)' = get_node_by_id(node_id) ]_vars

\* The part of C15 about the node returned by add_nncf_node, on its own.
C15_InsertedNodeOwned ==
    [][ (IsSetData(call') /\ call'.of = "add_nncf_node")
        => /\ get_input_nodes' = get_input_nodes
           /\ get_output_nodes' = get_output_nodes ]_vars

\* The ids of the consumers (forward) or the producers (backward) of id,
\* read off the edge set.
NeighbourIds(id, forward) ==
    IF forward
    THEN { SortKeyOf(nx_graph)[e[2]] : e \in { x \in EdgesOf(nx_graph) : SortKeyOf(nx_graph)[x[1]] = id } }
    ELSE { SortKeyOf(nx_graph)[e[1]] : e \in { x \in EdgesOf(nx_graph) : SortKeyOf(nx_graph)[x[2]] = id } }

\* The paths of n nodes that start at start, follow the edges in the given
\* direction and do not continue through a node of stop_at.
RECURSIVE PathsOfLength(_, _, _, _)
PathsOfLength(n, start, stop_at, forward) ==
    IF n = 1 THEN { << start >> }
    ELSE { Append(x[1], x[2]) :
             x \in { y \in PathsOfLength(n - 1, start, stop_at, forward) \X GraphNodeIds :
                       /\ y[1][Len(y[1])] \notin stop_at
                       /\ y[2] \in NeighbourIds(y[1][Len(y[1])], forward) } }

PathsFrom(start, stop_at, forward) ==
    UNION { PathsOfLength(n, start, stop_at, forward) : n \in 1..RecursionLimit }

IsPrefix(p, q) == Len(p) <= Len(q) /\ SubSeq(q, 1, Len(p)) = p

\* C11: a traversal that comes to its end calls traverse_function once for
\* every distinct path by which a node is reached from the start node (there
\* is no visited set), depth-first: where the function does not finish, the
\* traversal goes on into every next node (every previous node when
\* traverse_forward is false), each being passed the output that the function
\* returned for the node; where it finishes, no neighbour is visited along
\* that path.
C11_TraverseEveryPath ==
    \A i \in 1..Len(nx_graph.node), stop_at \in SUBSET GraphNodeIds, forward \in BOOLEAN :
        LET start == nx_graph.node[i]
            t == traverse_graph(start, stop_at, forward)
            N == Len(t.calls)
            p(j) == t.calls[j].path
        IN  ~t.raised =>
            /\ { p(j) : j \in 1..N } = PathsFrom(start.id, stop_at, forward)
            /\ \A j, k \in 1..N : j # k => p(j) # p(k)
            /\ \A j \in 1..N :
                   /\ t.calls[j].node = p(j)[Len(p(j))]
                   /\ t.calls[j].output = SubSeq(p(j), 1, Len(p(j)) - 1)
            /\ \A j, k, l \in 1..N :
                   (j < k /\ k < l /\ IsPrefix(p(j), p(l))) => IsPrefix(p(j), p(k))
            /\ \A j, k \in 1..N : j < k => ~IsPrefix(p(k), p(j))

CallsOn(t, id) == { j \in 1..Len(t.calls) : t.calls[j].node = id }

\* C11 witness: a node that two paths from the start node reach is called
\* twice, forward and backward alike, and once when the function finishes on
\* the node in between.
C11_Witness ==
    \E i, j, k \in 1..Len(nx_graph.node) :
        LET a == nx_graph.node[i]
            b == nx_graph.node[j]
            c == nx_graph.node[k]
            fwd == traverse_graph(a, {}, TRUE)
            bwd == traverse_graph(c, {}, FALSE)
            cut == traverse_graph(a, {b.id}, TRUE)
        IN  /\ ~fwd.raised /\ Cardinality(CallsOn(fwd, c.id)) = 2
            /\ ~bwd.raised /\ Cardinality(CallsOn(bwd, a.id)) = 2
            /\ ~cut.raised /\ Cardinality(CallsOn(cut, c.id)) = 1
            /\ Cardinality(CallsOn(cut, b.id)) = 1

\* The number of nodes on the longest path of G that repeats no node.
RECURSIVE LongestFrom(_, _, _)
LongestFrom(G, k, seen) ==
    LET next == Consumers(G, {k}) \ seen
    IN  IF next = {} THEN 1
        ELSE 1 + Max({ LongestFrom(G, n, seen \cup {n}) : n \in next })

LongestPathNodes(G) ==
    IF NodeKeys(G) = {} THEN 0
    ELSE Max({ LongestFrom(G, k, {k}) : k \in NodeKeys(G) })

TraverseDepthBounded ==
    \A i \in 1..Len(nx_graph.node), stop_at \in SUBSET GraphNodeIds, forward \in BOOLEAN :
        LET t == traverse_graph(nx_graph.node[i], stop_at, forward)
        IN  ~t.raised /\ t.depth <= LongestPathNodes(nx_graph)

\* C16: on every graph built by add_nncf_node and
\* add_edge_between_nncf_nodes and for every traverse_function, one that
\* never finishes included, the traversal comes to its end (the recursion is
\* not cut by RecursionError) and never recurses deeper than the number of
\* nodes on the longest path of the graph.
C16_TraverseBounded == TraverseDepthBounded

\* C16, for acyclic graphs only: the traversal comes to its end and never
\* recurses deeper than the number of nodes on the longest path of the graph.
C16_TraverseBoundedAcyclic == IsAcyclic(nx_graph) => TraverseDepthBounded

\* C16 witness: on a chain of three nodes the traversal from its first node
\* with a function that never finishes recurses three deep, which is the
\* number of nodes on the longest path.
C16_Witness ==
    /\ IsAcyclic(nx_graph)
    /\ LongestPathNodes(nx_graph) = 3
    /\ \E i \in 1..Len(nx_graph.node) :
           LET t == traverse_graph(nx_graph.node[i], {}, TRUE)
           IN  ~t.raised /\ t.depth = 3 /\ Len(t.calls) = 3

====
